---- MODULE Spec2Model ----
(***************************************************************************)
(* Model of src/autoArduinoCoding.py: the TextDrivenArduinoSystem          *)
(* singleton (toolchain path, provisioning flag, last description) driven  *)
(* by the three request handlers of the FastAPI application, which run as  *)
(* coroutines of one asyncio event loop.  A step of the model is the code  *)
(* a coroutine runs between two awaits.                                     *)
(***************************************************************************)
EXTENDS Integers, FiniteSets, Sequences, TLC

VARIABLES
    arduino_cli_path,       \* self.arduino_cli_path
    google_api_key,         \* self.google_api_key is set
    cli_env_setup_done,     \* self._cli_env_setup_done
    user_description,       \* self.user_description
    health_check,           \* the event loop is inside debug_devices
    sess                    \* per request: the coroutine's locals and position

vars == <<arduino_cli_path, google_api_key, cli_env_setup_done,
          user_description, health_check, sess>>

----------------------------------------------------------------------------
(* Bounds of the model *)

MaxSketch == 3      \* source texts the collaborator may return: 1..MaxSketch
MaxRequests == 2    \* requests a client sends, one after the other
MaxCalls == 2       \* direct calls of setup_cli_environment (SpecProv)

(* Program constants *)

MaxAttempts == 3    \* for attempt in range(3)
LastAttempt == 2    \* if attempt == 2: break

----------------------------------------------------------------------------
(* Values *)

NoPath == "None"                    \* arduino_cli_path is None
CliPath == "arduino-cli"            \* a path shutil.which resolved
NoText == 0                         \* "" / None for texts
Descriptions == {1, 2}              \* non-empty descriptions
Wirings == {1, 2}                   \* wiring_instructions texts
Stderrs == {1, 2}                   \* captured stderr texts
Ports == {1, 2}                     \* explicit port identifiers
Auto == 0                           \* port == "auto"

(* The source texts, by what setup_cli_environment reads in them: the      *)
(* headers of their #include <X.h> directives and the other substrings it  *)
(* looks for.  Text 0 is the empty text.                                    *)
Sketches ==
    << [includes |-> {}, mentions |-> {}],
       [includes |-> {"Adafruit_NeoPixel"}, mentions |-> {"myServo"}],
       [includes |-> {"Servo"}, mentions |-> {"myServo"}],
       [includes |-> {}, mentions |-> {"Servo.h", "myServo"}],
       [includes |-> {"Wire"}, mentions |-> {}] >>

Sources == 1..MaxSketch

Includes(code) == IF code = NoText THEN {} ELSE Sketches[code].includes

Contains(code, text) ==
    /\ code # NoText
    /\ \/ text \in Sketches[code].mentions
       \/ text = "Servo.h" /\ "Servo" \in Sketches[code].includes

LibNames == {"Servo", "Adafruit_NeoPixel", "Wire"}
CoreCommands == {"update-index", "core-install"}
Commands == CoreCommands \cup LibNames

RequiredLibs(code) ==
    LET required_libs == Includes(code)
    IN  IF /\ "Servo" \notin required_libs
           /\ ~Contains(code, "Servo.h")
           /\ Contains(code, "myServo")
        THEN required_libs \cup {"Servo"}
        ELSE required_libs

----------------------------------------------------------------------------
(* The generation collaborator's answers *)

None == [none |-> TRUE]

EmptyObject == [k \in {} |-> NoText]          \* {}

JsonObjects ==
    {[arduino_code |-> c, wiring_instructions |-> w] : c \in Sources, w \in Wirings}
    \cup {[arduino_code |-> c] : c \in Sources}
    \cup {[wiring_instructions |-> w] : w \in Wirings}
    \cup {EmptyObject}

ApiTexts ==
    {[kind |-> "text", json |-> TRUE, obj |-> o] : o \in JsonObjects}
    \cup {[kind |-> "text", json |-> FALSE, obj |-> None]}

ApiOutcomes ==
    ApiTexts \cup {[kind |-> "request_failed"], [kind |-> "empty"], [kind |-> "raises"]}

\* _call_gemini_api's return value: the text ("" included), or None when the
\* request failed (the outcome "raises" never returns)
CallGeminiApi(out) == IF out.kind \in {"text", "empty"} THEN out ELSE None

\* Python's truth value of a response text and of a parsed object
TruthyText(text) == text # None /\ text.kind = "text"

ExtractCodeFromJson(text) == IF text.json THEN text.obj ELSE None

Truthy(obj) == obj # None /\ DOMAIN obj # {}

Has(obj, key) == obj # None /\ key \in DOMAIN obj

\* dict.get(key): None (the empty text here) when the key is missing
Get(obj, key) == IF Has(obj, key) THEN obj[key] ELSE NoText

\* obj[key] = value
Put(obj, key, value) ==
    [k \in DOMAIN obj \cup {key} |-> IF k = key THEN value ELSE obj[k]]

\* how the answer looks to the caller
Shape(out) ==
    CASE out.kind # "text" -> out.kind
      [] ~out.json -> "unparsable"
      [] ~Has(out.obj, "arduino_code") -> "missing_field"
      [] OTHER -> "ok"

----------------------------------------------------------------------------
(* The toolchain locator and the device classifier *)

PossibleNames == <<"arduino-cli", "arduino-cli.exe">>

\* what shutil.which and the "version" health check find for each name
Probes == [DOMAIN PossibleNames -> {"missing", "broken", "ok"}]

\* shutil.which(name): both names are names of the one executable
Which(name) == CliPath

FindArduinoCli(probe) ==
    LET found == {i \in DOMAIN PossibleNames : probe[i] = "ok"}
    IN  IF found = {} THEN NoPath
        ELSE Which(PossibleNames[CHOOSE i \in found : \A j \in found : i <= j])

CliPaths == {FindArduinoCli(probe) : probe \in Probes}

ArduinoIdentifiers == {"Arduino", "CH340"}      \* of arduino_identifiers
ArduinoVidPids == {"2341", "1A86"}              \* of arduino_vid_pids

\* a port of serial.tools.list_ports.comports(): the identifiers found in its
\* description or manufacturer, and its vendor id in hex ("None": no vid)
PortInfos ==
    [device : Ports, identifiers : {{}, {"CH340"}}, vid : {"None", "2341", "8087"}]

IsArduino(port) ==
    \/ port.identifiers \cap ArduinoIdentifiers # {}
    \/ port.vid # "None" /\ port.vid \in ArduinoVidPids

\* the enumerations: the scan raises, or lists ports with distinct devices
Scans ==
    {[failed |-> TRUE, ports |-> <<>>]}
    \cup {[failed |-> FALSE, ports |-> <<>>]}
    \cup {[failed |-> FALSE, ports |-> <<p>>] : p \in PortInfos}
    \cup {[failed |-> FALSE, ports |-> <<pq[1], pq[2]>>] :
            pq \in {x \in PortInfos \X PortInfos : x[1].device # x[2].device}}

DetectArduinoDevices(scan) ==
    IF scan.failed THEN <<>>
    ELSE [i \in DOMAIN scan.ports |->
            [port |-> scan.ports[i].device, is_arduino |-> IsArduino(scan.ports[i])]]

----------------------------------------------------------------------------
(* Requests.  A request's record holds the locals of its coroutine (named  *)
(* as in the source), its position pc, and a record of what it has done.   *)

Generate == {"g1"}          \* POST /api/generate-direct-code
Deploy == {"d1"}            \* POST /api/deploy
Provision == {"p1"}         \* a caller of setup_cli_environment alone
Peers == {"g2", "g3"}       \* clients of generate whose requests overlap
Uploaders == {"d2"}         \* a client of deploy whose request overlaps theirs
Sessions == Generate \cup Deploy \cup Provision \cup Peers \cup Uploaders

Kind(s) ==
    CASE s \in Generate \cup Peers -> "generate"
      [] s \in Deploy \cup Uploaders -> "deploy"
      [] OTHER -> "provision"

NoResponse == [status |-> 0]
NoPrompt == [user_description |-> NoText, wiring_instructions |-> NoText,
             code |-> NoText, error_message |-> NoText]
NoTasks == [c \in Commands |-> "none"]

Fresh(pc) ==
    [pc |-> pc,
     served |-> 0,                  \* requests of this client accepted so far
     response |-> NoResponse,
     description |-> NoText,
     generation_result |-> None,
     code |-> NoText,
     attempt |-> 0,
     result |-> NoText,             \* result["stderr"] of the latest build
     fix_prompt |-> NoPrompt,
     port |-> Auto,
     temp_dir |-> FALSE,            \* the scratch directory exists
     tasks |-> NoTasks,             \* the _run_cli_command coroutines
     \* what the request has done
     initial |-> None,              \* the artifact generated first
     accepted |-> None,             \* the latest well-formed artifact received
     cli_seen |-> "unchecked",      \* what the toolchain check found
     gen_shape |-> "none",          \* shape of the first answer
     fix_shape |-> "none",          \* shape of the latest repair answer
     setup_calls |-> 0,             \* calls of setup_cli_environment
     builds |-> 0,                  \* Build Runner invocations
     build |-> "none",              \* how the latest one ended
     compiled |-> NoText,           \* the text it was given
     repairs |-> 0,                 \* repair requests sent
     uploads |-> 0,                 \* upload subcommands invoked
     selector |-> Auto,             \* the port the request asked for
     scans |-> 0,                   \* calls of detect_arduino_devices
     scan_failed |-> FALSE,         \* comports() raised in the latest one
     seen |-> <<>>,                 \* the devices it returned
     target |-> Auto,               \* the port of the upload command
     late |-> FALSE,                \* started a command with the flag set
     null_path |-> FALSE,           \* began a compile or an upload while
                                    \* self.arduino_cli_path was None
     nonzero |-> FALSE,             \* a command that the provisioning under
                                    \* way (for a caller of it alone: the
                                    \* latest) awaited has exited non-zero
     returned |-> FALSE,            \* a call made with a toolchain has returned
     prior |-> FALSE,               \* ... before the latest call began
     with_cli |-> FALSE,            \* the latest call began with a toolchain
     prev_code |-> NoText]          \* the text of the call before

\* the content of the JSONResponse, with its status code; the locals of the
\* coroutine are gone once it has returned
Respond(st, response) ==
    [st EXCEPT !.pc = "done", !.response = response, !.nonzero = FALSE,
               !.fix_prompt = NoPrompt, !.description = NoText, !.code = NoText,
               !.generation_result = None, !.attempt = 0, !.port = Auto]

\* an exception leaving a with-block that does not remove the directory
MutRaised(st) == [st EXCEPT !.pc = "raised", !.fix_prompt = NoPrompt]

\* an exception leaves the coroutine; a with-block removes its directory
Raised(st) == [st EXCEPT !.pc = "raised", !.temp_dir = FALSE, !.fix_prompt = NoPrompt]

\* what becomes of an exception that leaves the handler
Handle(kind, st) ==
    IF st.pc # "raised" THEN st
    ELSE CASE kind = "generate" -> Respond(st, [status |-> 500, error |-> "internal"])
           [] kind = "deploy" -> Respond(st, [status |-> 500])
           [] OTHER -> [st EXCEPT !.pc = "idle"]

\* writing the source or starting a subprocess may raise OSError
Faults == {"none", "OSError"}

NoScan == [failed |-> TRUE, ports |-> <<>>]

----------------------------------------------------------------------------
(* api_generate_direct_code, lines 531-542: the response after              *)
(* validate_and_fix_code returned (is_valid, final_result)                  *)

\* ApiGenerateReturn answering with the artifact generated first
MutApiGenerateReturnInitial(st, is_valid) ==
    LET final_result == st.initial
    IN  IF ~is_valid
        THEN Respond(st,
                [status |-> 400, error |-> "not_validated",
                 arduino_code |-> Get(final_result, "arduino_code"),
                 wiring_instructions |-> Get(final_result, "wiring_instructions")])
        ELSE Respond(st,
                [status |-> 200,
                 arduino_code |-> Get(final_result, "arduino_code"),
                 wiring_instructions |-> Get(final_result, "wiring_instructions"),
                 message |-> "generated"])

\* ApiGenerateReturn answering a failure with the error message alone
MutApiGenerateReturnBare(st, is_valid) ==
    LET final_result == st.generation_result
    IN  IF ~is_valid
        THEN Respond(st, [status |-> 400, error |-> "not_validated"])
        ELSE Respond(st,
                [status |-> 200,
                 arduino_code |-> Get(final_result, "arduino_code"),
                 wiring_instructions |-> Get(final_result, "wiring_instructions"),
                 message |-> "generated"])

ApiGenerateReturn(st, is_valid) ==
    LET final_result == st.generation_result
    IN  IF ~is_valid
        THEN Respond(st,
                [status |-> 400, error |-> "not_validated",
                 arduino_code |-> Get(final_result, "arduino_code"),
                 wiring_instructions |-> Get(final_result, "wiring_instructions")])
        ELSE Respond(st,
                [status |-> 200,
                 arduino_code |-> Get(final_result, "arduino_code"),
                 wiring_instructions |-> Get(final_result, "wiring_instructions"),
                 message |-> "generated"])

(* _compile_code, lines 256-265: the scratch directory is made, the source  *)
(* written and the compile subprocess started with self.arduino_cli_path   *)
CompileCode(st, path, fault) ==
    LET st1 == [st EXCEPT !.builds = @ + 1, !.compiled = st.code, !.build = "raised",
                          !.null_path = @ \/ path = NoPath]
    IN  IF fault # "none" \/ path = NoPath
        THEN Raised(st1)
        ELSE [st1 EXCEPT !.pc = "compiling", !.temp_dir = TRUE, !.build = "running"]

(* deploy_to_arduino, lines 285-293 *)
DeployCompile(st, path, fault) ==
    LET st1 == [st EXCEPT !.builds = @ + 1, !.compiled = st.code, !.build = "raised",
                          !.null_path = @ \/ path = NoPath]
    IN  IF fault # "none" \/ path = NoPath
        THEN Raised(st1)
        ELSE [st1 EXCEPT !.pc = "compiling", !.temp_dir = TRUE, !.build = "running"]

\* line 279 taking every device for an Arduino
MutArduinoPorts(devices) == [i \in DOMAIN devices |-> devices[i].port]

\* line 279
ArduinoPorts(devices) ==
    LET likely == SelectSeq(devices, LAMBDA d : d.is_arduino)
    IN  [i \in DOMAIN likely |-> likely[i].port]

\* line 282 taking the last port of the list
MutSelectPort(arduino_ports) == arduino_ports[Len(arduino_ports)]

\* line 282
SelectPort(arduino_ports) == arduino_ports[1]

\* deploy_to_arduino without lines 277-283
MutDeployAfterSetupNoScan(st, path, fault, scan) == DeployCompile(st, path, fault)

(* deploy_to_arduino, lines 277-283, then the build *)
DeployAfterSetup(st, path, fault, scan) ==
    IF st.port = Auto
    THEN LET devices == DetectArduinoDevices(scan)
             arduino_ports == ArduinoPorts(devices)
             st1 == [st EXCEPT !.scans = @ + 1, !.scan_failed = scan.failed,
                               !.seen = devices]
         IN  IF arduino_ports = <<>>
             THEN Respond(st1, [status |-> 200, success |-> FALSE,
                                error |-> "no_device", suggestion |-> "check_usb"])
             ELSE DeployCompile([st1 EXCEPT !.port = SelectPort(arduino_ports)],
                                path, fault)
    ELSE DeployCompile(st, path, fault)

(* what the caller of setup_cli_environment does once it has returned *)
AfterSetup(kind, st, path, fault, scan) ==
    CASE kind = "generate" ->
            CompileCode([st EXCEPT !.attempt = 0, !.nonzero = FALSE], path, fault)
      [] kind = "deploy" ->
            DeployAfterSetup([st EXCEPT !.nonzero = FALSE], path, fault, scan)
      [] OTHER -> [st EXCEPT !.pc = "idle", !.returned = @ \/ st.with_cli]

\* line 166 without its test of the flag
MutSetupSkips(done, path) == path = NoPath

\* setup_cli_environment without lines 166-167
MutSetupNeverSkips(done, path) == FALSE

\* line 166
SetupSkips(done, path) == done \/ path = NoPath

(* setup_cli_environment, lines 164-173, to the first gather *)
SetupCliEnvironment(kind, st, path, done, fault, scan) ==
    LET st1 == [st EXCEPT !.setup_calls = @ + 1]
    IN  IF SetupSkips(done, path)
        THEN AfterSetup(kind, st1, path, fault, scan)
        ELSE [st1 EXCEPT !.pc = "prov_core",
                         !.tasks = [c \in Commands |->
                                      IF c \in CoreCommands THEN "pending" ELSE "none"]]

\* validate_and_fix_code without lines 199-200
MutValidateIgnoresToolchain(st, path, done, fault) ==
    SetupCliEnvironment("generate",
        [st EXCEPT !.cli_seen = IF path = NoPath THEN "absent" ELSE "present",
                   !.code = Get(st.generation_result, "arduino_code")],
        path, done, fault, NoScan)

\* validate_and_fix_code returning False at line 200
MutValidateRejectsUnvalidated(st, path, done, fault) ==
    IF path = NoPath
    THEN ApiGenerateReturn([st EXCEPT !.cli_seen = "absent"], FALSE)
    ELSE SetupCliEnvironment("generate",
            [st EXCEPT !.cli_seen = "present",
                       !.code = Get(st.generation_result, "arduino_code")],
            path, done, fault, NoScan)

(* validate_and_fix_code, lines 197-207 *)
ValidateAndFixCode(st, path, done, fault) ==
    IF path = NoPath
    THEN ApiGenerateReturn([st EXCEPT !.cli_seen = "absent"], TRUE)
    ELSE SetupCliEnvironment("generate",
            [st EXCEPT !.cli_seen = "present",
                       !.code = Get(st.generation_result, "arduino_code")],
            path, done, fault, NoScan)

(* api_generate_direct_code, lines 516-525, to the await of the request *)
ApiGenerateDirectCode(st, description, key) ==
    IF description = NoText
    THEN Respond(st, [status |-> 400, error |-> "no_description"])
    ELSE LET st1 == [st EXCEPT !.description = description]
         IN  IF ~key
             THEN Respond([st1 EXCEPT !.gen_shape = "no_key"],
                          [status |-> 400, error |-> "ValueError"])
             ELSE [st1 EXCEPT !.pc = "gen_wait"]

\* line 526 without its test of the key
MutUnusable(generation_result) == ~Truthy(generation_result)

\* line 526
Unusable(generation_result) ==
    ~Truthy(generation_result) \/ ~Has(generation_result, "arduino_code")

(* the first answer arrives: lines 110-120, 161-162, 525-529 *)
GenerationReturns(st, out, path, done, fault) ==
    LET st1 == [st EXCEPT !.gen_shape = Shape(out),
                          !.accepted = IF Shape(out) = "ok" THEN out.obj ELSE @]
        response_text == CallGeminiApi(out)
        generation_result ==
            IF TruthyText(response_text) THEN ExtractCodeFromJson(response_text)
            ELSE None
    IN  IF out.kind = "raises" THEN Raised(st1)
        ELSE IF Unusable(generation_result)
        THEN Respond(st1, [status |-> 500, error |-> "generation_failed"])
        ELSE ValidateAndFixCode(
                [st1 EXCEPT !.generation_result = generation_result,
                            !.initial = generation_result],
                path, done, fault)

\* the break of line 213 taken one attempt too late
MutExhausted(attempt) == attempt = LastAttempt + 1

\* line 213
Exhausted(attempt) == attempt = LastAttempt

\* CompileReturns sending the stderr of the build before the latest
MutCompileReturnsStaleError(st, returncode, stderr, description) ==
    LET success == returncode = 0
        st1 == [st EXCEPT !.temp_dir = FALSE, !.result = stderr,
                          !.build = IF success THEN "zero" ELSE "nonzero"]
    IN  IF success
        THEN ApiGenerateReturn(
                [st1 EXCEPT !.generation_result = Put(@, "arduino_code", st.code)],
                TRUE)
        ELSE IF Exhausted(st.attempt)
        THEN ApiGenerateReturn(st1, FALSE)
        ELSE [st1 EXCEPT
                !.pc = "fix_wait",
                !.repairs = @ + 1,
                !.fix_prompt =
                    [user_description |-> description,
                     wiring_instructions |->
                        Get(st.generation_result, "wiring_instructions"),
                     code |-> st.code,
                     error_message |-> IF st.result = NoText THEN stderr
                                       ELSE st.result]]

(* the build ends: lines 266-268 and 208-240 *)
CompileReturns(st, returncode, stderr, description) ==
    LET success == returncode = 0
        st1 == [st EXCEPT !.temp_dir = FALSE, !.result = stderr,
                          !.build = IF success THEN "zero" ELSE "nonzero"]
    IN  IF success
        THEN ApiGenerateReturn(
                [st1 EXCEPT !.generation_result = Put(@, "arduino_code", st.code)],
                TRUE)
        ELSE IF Exhausted(st.attempt)
        THEN ApiGenerateReturn(st1, FALSE)
        ELSE [st1 EXCEPT
                !.pc = "fix_wait",
                !.repairs = @ + 1,
                !.fix_prompt =
                    [user_description |-> description,
                     wiring_instructions |->
                        Get(st.generation_result, "wiring_instructions"),
                     code |-> st.code,
                     error_message |-> stderr]]

\* FixReturns without line 248: the repaired text is compiled, the artifact
\* kept is the one before
MutFixReturnsKeepsArtifact(st, out, path, fault) ==
    LET st1 == [st EXCEPT !.fix_shape = Shape(out), !.fix_prompt = NoPrompt,
                          !.accepted = IF Shape(out) = "ok" THEN out.obj ELSE @]
    IN  IF out.kind = "raises" THEN Raised(st1)
        ELSE IF Shape(out) # "ok" THEN ApiGenerateReturn(st1, FALSE)
        ELSE CompileCode([st1 EXCEPT !.code = out.obj.arduino_code,
                                     !.attempt = @ + 1], path, fault)

\* FixReturns without line 247: the artifact is replaced, the text compiled
\* next is the one before
MutFixReturnsKeepsCode(st, out, path, fault) ==
    LET st1 == [st EXCEPT !.fix_shape = Shape(out), !.fix_prompt = NoPrompt,
                          !.accepted = IF Shape(out) = "ok" THEN out.obj ELSE @]
    IN  IF out.kind = "raises" THEN Raised(st1)
        ELSE IF Shape(out) # "ok" THEN ApiGenerateReturn(st1, FALSE)
        ELSE CompileCode([st1 EXCEPT !.generation_result = out.obj,
                                     !.attempt = @ + 1], path, fault)

\* FixReturns going on to the next attempt after an unusable answer
MutFixReturnsRetries(st, out, path, fault) ==
    LET st1 == [st EXCEPT !.fix_shape = Shape(out), !.fix_prompt = NoPrompt,
                          !.accepted = IF Shape(out) = "ok" THEN out.obj ELSE @]
        st2 == IF Shape(out) = "ok"
               THEN [st1 EXCEPT !.code = out.obj.arduino_code,
                                !.generation_result = out.obj,
                                !.attempt = @ + 1]
               ELSE [st1 EXCEPT !.attempt = @ + 1]
    IN  IF out.kind = "raises" THEN Raised(st1)
        ELSE IF st2.attempt < MaxAttempts
        THEN CompileCode(st2, path, fault)
        ELSE ApiGenerateReturn(st2, FALSE)

(* the repair answer arrives: lines 240-251, and the next turn of the loop *)
FixReturns(st, out, path, fault) ==
    LET st1 == [st EXCEPT !.fix_shape = Shape(out), !.fix_prompt = NoPrompt,
                          !.accepted = IF Shape(out) = "ok" THEN out.obj ELSE @]
        fixed_response_text == CallGeminiApi(out)
        fixed_result ==
            IF TruthyText(fixed_response_text)
            THEN ExtractCodeFromJson(fixed_response_text)
            ELSE None
    IN  IF out.kind = "raises" THEN Raised(st1)
        ELSE IF ~TruthyText(fixed_response_text)
        THEN ApiGenerateReturn(st1, FALSE)
        ELSE IF Truthy(fixed_result) /\ Has(fixed_result, "arduino_code")
        THEN LET st2 == [st1 EXCEPT !.code = fixed_result.arduino_code,
                                    !.generation_result = fixed_result,
                                    !.attempt = @ + 1]
             IN  IF st2.attempt < MaxAttempts
                 THEN CompileCode(st2, path, fault)
                 ELSE ApiGenerateReturn(st2, FALSE)
        ELSE ApiGenerateReturn(st1, FALSE)

----------------------------------------------------------------------------
(* api_deploy_code and deploy_to_arduino *)

\* deploy_to_arduino without lines 272-273
MutApiDeployCodeNoCheck(st, code_to_deploy, port, path, done, fault, scan) ==
    IF code_to_deploy = NoText
    THEN Respond(st, [status |-> 400, error |-> "no_code"])
    ELSE SetupCliEnvironment("deploy",
            [st EXCEPT !.code = code_to_deploy, !.port = port, !.selector = port,
                       !.cli_seen = IF path = NoPath THEN "absent" ELSE "present"],
            path, done, fault, scan)

\* lines 550-557 and 270-275
ApiDeployCode(st, code_to_deploy, port, path, done, fault, scan) ==
    IF code_to_deploy = NoText
    THEN Respond(st, [status |-> 400, error |-> "no_code"])
    ELSE LET st1 == [st EXCEPT !.code = code_to_deploy, !.port = port,
                               !.selector = port]
         IN  IF path = NoPath
             THEN Respond([st1 EXCEPT !.cli_seen = "absent"],
                          [status |-> 200, success |-> FALSE, error |-> "no_cli"])
             ELSE SetupCliEnvironment("deploy", [st1 EXCEPT !.cli_seen = "present"],
                                      path, done, fault, scan)

\* line 296 taking only a negative status for a failure
MutCompileFailed(returncode) == returncode < 0

\* line 296
CompileFailed(returncode) == returncode # 0

\* the compile ends: lines 294-303
DeployCompileReturns(st, returncode, stderr, path, fault) ==
    LET st1 == [st EXCEPT !.result = stderr,
                          !.build = IF returncode = 0 THEN "zero" ELSE "nonzero"]
    IN  IF CompileFailed(returncode)
        THEN Respond([st1 EXCEPT !.temp_dir = FALSE],
                     [status |-> 200, success |-> FALSE,
                      error |-> "compile_failed", details |-> stderr])
        ELSE LET st2 == [st1 EXCEPT !.uploads = @ + 1, !.target = st.port,
                                    !.null_path = @ \/ path = NoPath]
             IN  IF fault # "none" \/ path = NoPath
                 THEN Raised(st2)
                 ELSE [st2 EXCEPT !.pc = "uploading"]

\* the upload ends: lines 304-309
UploadReturns(st, returncode, output) ==
    LET st1 == [st EXCEPT !.temp_dir = FALSE]
    IN  IF returncode # 0
        THEN Respond(st1, [status |-> 200, success |-> FALSE,
                           error |-> "upload_failed", details |-> output])
        ELSE Respond(st1, [status |-> 200, success |-> TRUE, message |-> "deployed",
                           port |-> st.port, output |-> output])

----------------------------------------------------------------------------
(* _run_cli_command, lines 190-194, and the two gathers of                  *)
(* setup_cli_environment, lines 170-188                                     *)

\* line 194 raising on a non-zero exit status
MutProcWait(st, c, returncode) ==
    IF st.pc \in {"prov_core", "prov_libs"}
    THEN [st EXCEPT !.tasks[c] = IF returncode # 0 THEN "raised" ELSE "exited",
                    !.nonzero = @ \/ returncode # 0]
    ELSE [st EXCEPT !.tasks[c] = "none"]

\* line 194: the exit status is not read.  The result of a task whose gather
\* has already raised goes nowhere.
ProcWait(st, c, returncode) ==
    IF st.pc \in {"prov_core", "prov_libs"}
    THEN [st EXCEPT !.tasks[c] = "exited", !.nonzero = @ \/ returncode # 0]
    ELSE [st EXCEPT !.tasks[c] = "none"]

\* lines 192-193
RunCliCommand(st, c, path, fault) ==
    IF path = NoPath
    THEN ProcWait(st, c, 0)
    ELSE IF fault # "none"
    THEN [st EXCEPT !.tasks[c] =
            IF st.pc \in {"prov_core", "prov_libs"} THEN "raised" ELSE "none"]
    ELSE [st EXCEPT !.tasks[c] = "running"]

Awaited(st) == {c \in Commands : st.tasks[c] # "none"}

\* the gather the coroutine awaits has every result
GatherDone(st) ==
    /\ st.pc \in {"prov_core", "prov_libs"}
    /\ \A c \in Awaited(st) : st.tasks[c] = "exited"

\* lines 175-187 have nothing more to wait for
SetupFinishes(st) == st.pc = "prov_libs" \/ RequiredLibs(st.code) = {}

\* lines 175-188 and the return to the caller
GatherReturns(kind, st, path, fault, scan) ==
    IF SetupFinishes(st)
    THEN AfterSetup(kind, [st EXCEPT !.tasks = NoTasks], path, fault, scan)
    ELSE [st EXCEPT !.pc = "prov_libs",
                    !.tasks = [c \in Commands |->
                        IF c \in RequiredLibs(st.code) THEN "pending" ELSE "none"]]

----------------------------------------------------------------------------
(* The actions: one per stretch of code between two awaits *)

\* what the clients whose requests overlap send, and what their requests
\* meet: fewer texts, answers and enumerations than a client alone
FewSources == {1, 3}
FewOutcomes ==
    {[kind |-> "text", json |-> TRUE,
      obj |-> [arduino_code |-> c, wiring_instructions |-> 1]] : c \in FewSources}
    \cup {[kind |-> "request_failed"]}
FewStderrs == {1}
FewScans ==
    {scan \in Scans : Len(scan.ports) <= 1 /\
        \A i \in DOMAIN scan.ports :
            scan.ports[i] = [device |-> 1, identifiers |-> {}, vid |-> "2341"]}

Alone(s) == s \in Generate \cup Deploy \cup Provision

SourcesOf(s) == IF Alone(s) THEN Sources ELSE FewSources
OutcomesOf(s) == IF Alone(s) THEN ApiOutcomes ELSE FewOutcomes
StderrsOf(s) == IF Alone(s) THEN Stderrs ELSE FewStderrs
PortsOf(s) == IF Alone(s) THEN Ports \cup {Auto} ELSE {1, Auto}

ScansOf(s) ==
    IF Kind(s) = "deploy" /\ sess[s].port = Auto
    THEN IF Alone(s) THEN Scans ELSE FewScans
    ELSE {NoScan}

FaultsOf(out) == IF Shape(out) = "ok" THEN Faults ELSE {"none"}

Shared == <<arduino_cli_path, google_api_key, cli_env_setup_done, health_check>>

\* the one thread of the event loop is not inside a call that blocks it:
\* debug_devices runs subprocess.run at lines 62 and 568 without an await
EventLoopFree == health_check = "none"

\* a client sends its next request once the last one is answered (and what
\* that one left running has ended)
Ready(st) ==
    /\ st.pc \in {"idle", "done"}
    /\ st.served < MaxRequests
    /\ st.tasks = NoTasks

Arrive(st) == [Fresh("idle") EXCEPT !.served = st.served + 1]

\* POST /api/generate-direct-code arrives
GenerateRequest(s) ==
    /\ EventLoopFree
    /\ Kind(s) = "generate"
    /\ Ready(sess[s])
    /\ \E description \in Descriptions \cup {NoText} :
        /\ sess' = [sess EXCEPT ![s] =
                       ApiGenerateDirectCode(Arrive(@), description, google_api_key)]
        /\ user_description' =
              IF description = NoText THEN user_description ELSE description
    /\ UNCHANGED Shared

\* the collaborator answers the first request
GenerationAnswer(s) ==
    /\ EventLoopFree
    /\ sess[s].pc = "gen_wait"
    /\ \E out \in OutcomesOf(s) : \E fault \in FaultsOf(out) :
        sess' = [sess EXCEPT ![s] =
                    Handle("generate",
                        GenerationReturns(@, out, arduino_cli_path,
                                          cli_env_setup_done, fault))]
    /\ UNCHANGED <<Shared, user_description>>

\* the compile subprocess of _compile_code exits
CompileExit(s) ==
    /\ EventLoopFree
    /\ Kind(s) = "generate"
    /\ sess[s].pc = "compiling"
    /\ \E returncode \in {0, 1}, stderr \in StderrsOf(s) :
        sess' = [sess EXCEPT ![s] =
                    Handle("generate",
                        CompileReturns(@, returncode, stderr, user_description))]
    /\ UNCHANGED <<Shared, user_description>>

\* the collaborator answers a repair request
FixAnswer(s) ==
    /\ EventLoopFree
    /\ sess[s].pc = "fix_wait"
    /\ \E out \in OutcomesOf(s) : \E fault \in FaultsOf(out) :
        sess' = [sess EXCEPT ![s] =
                    Handle("generate", FixReturns(@, out, arduino_cli_path, fault))]
    /\ UNCHANGED <<Shared, user_description>>

\* POST /api/deploy arrives
DeployRequest(s) ==
    /\ EventLoopFree
    /\ Kind(s) = "deploy"
    /\ Ready(sess[s])
    /\ \E code \in SourcesOf(s) \cup {NoText}, port \in PortsOf(s),
          fault \in Faults :
        \E scan \in (IF port # Auto THEN {NoScan}
                     ELSE IF Alone(s) THEN Scans ELSE FewScans) :
            sess' = [sess EXCEPT ![s] =
                        Handle("deploy",
                            ApiDeployCode(Arrive(@), code, port, arduino_cli_path,
                                          cli_env_setup_done, fault, scan))]
    /\ UNCHANGED <<Shared, user_description>>

\* the compile subprocess of deploy_to_arduino exits
DeployCompileExit(s) ==
    /\ EventLoopFree
    /\ Kind(s) = "deploy"
    /\ sess[s].pc = "compiling"
    /\ \E returncode \in {0, 1}, stderr \in StderrsOf(s), fault \in Faults :
        sess' = [sess EXCEPT ![s] =
                    Handle("deploy",
                        DeployCompileReturns(@, returncode, stderr,
                                             arduino_cli_path, fault))]
    /\ UNCHANGED <<Shared, user_description>>

\* the upload subprocess exits
UploadExit(s) ==
    /\ EventLoopFree
    /\ sess[s].pc = "uploading"
    /\ \E returncode \in {0, 1}, output \in StderrsOf(s) :
        sess' = [sess EXCEPT ![s] = UploadReturns(@, returncode, output)]
    /\ UNCHANGED <<Shared, user_description>>

\* setup_cli_environment is called on its own
ProvisionCall(s) ==
    /\ EventLoopFree
    /\ s \in Provision
    /\ sess[s].pc = "idle"
    /\ sess[s].tasks = NoTasks
    /\ sess[s].setup_calls < MaxCalls
    /\ \E code \in Sources, fault \in Faults :
        sess' = [sess EXCEPT ![s] =
                    SetupCliEnvironment("provision",
                        [@ EXCEPT !.prev_code = sess[s].code, !.code = code,
                                  !.prior = sess[s].returned,
                                  !.with_cli = arduino_cli_path # NoPath],
                        arduino_cli_path, cli_env_setup_done, fault, NoScan)]
    /\ UNCHANGED <<Shared, user_description>>

\* whether the subprocess of task c was started while the flag was set
Started(st, c, done) ==
    [st EXCEPT !.late = @ \/ (done /\ st.tasks[c] = "running")]

\* a task of a gather starts: it spawns its subprocess, or returns at once
CommandStart(s, c) ==
    /\ EventLoopFree
    /\ sess[s].tasks[c] = "pending"
    /\ \E fault \in Faults :
        sess' = [sess EXCEPT ![s] =
                    Started(RunCliCommand(@, c, arduino_cli_path, fault), c,
                            cli_env_setup_done)]
    /\ UNCHANGED <<Shared, user_description>>

\* the subprocess of a task exits
CommandExit(s, c) ==
    /\ EventLoopFree
    /\ sess[s].tasks[c] = "running"
    /\ \E returncode \in {0, 1} :
        sess' = [sess EXCEPT ![s] = ProcWait(@, c, returncode)]
    /\ UNCHANGED <<Shared, user_description>>

\* a gather returns its results to setup_cli_environment
GatherReturn(s) ==
    /\ EventLoopFree
    /\ GatherDone(sess[s])
    /\ \E fault \in Faults, scan \in ScansOf(s) :
        sess' = [sess EXCEPT ![s] =
                    Handle(Kind(s),
                        GatherReturns(Kind(s), @, arduino_cli_path, fault, scan))]
    /\ cli_env_setup_done' = (cli_env_setup_done \/ SetupFinishes(sess[s]))
    /\ UNCHANGED <<arduino_cli_path, google_api_key, user_description, health_check>>

\* a gather raises the exception of one of its tasks
GatherRaise(s) ==
    /\ EventLoopFree
    /\ sess[s].pc \in {"prov_core", "prov_libs"}
    /\ \E c \in Commands : sess[s].tasks[c] = "raised"
    /\ sess' = [sess EXCEPT ![s] =
                    Handle(Kind(s),
                        Raised([@ EXCEPT !.tasks =
                            [c \in Commands |->
                                IF @[c] \in {"pending", "running"} THEN @[c]
                                ELSE "none"]]))]
    /\ UNCHANGED <<Shared, user_description>>

\* a status check that also clears the provisioning flag
MutDebugDevices ==
    /\ health_check = "running"
    /\ \E probe \in Probes : arduino_cli_path' = FindArduinoCli(probe)
    /\ health_check' = "none"
    /\ cli_env_setup_done' = FALSE
    /\ UNCHANGED <<google_api_key, user_description, sess>>

\* GET /api/debug/devices arrives: the handler runs on the event loop, which
\* does nothing else until the handler has returned
DebugDevicesCall ==
    /\ EventLoopFree
    /\ health_check' = "running"
    /\ UNCHANGED <<arduino_cli_path, google_api_key, cli_env_setup_done,
                   user_description, sess>>

\* debug_devices returns, lines 563-575: the toolchain path is what
\* find_arduino_cli found
DebugDevices ==
    /\ health_check = "running"
    /\ \E probe \in Probes : arduino_cli_path' = FindArduinoCli(probe)
    /\ health_check' = "none"
    /\ UNCHANGED <<google_api_key, cli_env_setup_done, user_description, sess>>

----------------------------------------------------------------------------
(* The server answering the generate requests of a client, and status      *)
(* checks at any time                                                       *)

Start(sessions) ==
    /\ arduino_cli_path \in CliPaths
    /\ google_api_key \in BOOLEAN
    /\ cli_env_setup_done = FALSE
    /\ user_description = NoText
    /\ health_check = "none"
    /\ sess = [s \in sessions |-> Fresh("idle")]

Init == Start(Generate)

Next ==
    \/ \E s \in Generate : GenerateRequest(s)
    \/ \E s \in Generate : GenerationAnswer(s)
    \/ \E s \in Generate : CompileExit(s)
    \/ \E s \in Generate : FixAnswer(s)
    \/ \E s \in Generate, c \in Commands : CommandStart(s, c)
    \/ \E s \in Generate, c \in Commands : CommandExit(s, c)
    \/ \E s \in Generate : GatherReturn(s)
    \/ \E s \in Generate : GatherRaise(s)
    \/ DebugDevicesCall
    \/ DebugDevices

Spec == Init /\ [][Next]_vars

(* The server answering the deploy requests of a client *)

InitDeploy == Start(Deploy)

NextDeploy ==
    \/ \E s \in Deploy : DeployRequest(s)
    \/ \E s \in Deploy : DeployCompileExit(s)
    \/ \E s \in Deploy : UploadExit(s)
    \/ \E s \in Deploy, c \in Commands : CommandStart(s, c)
    \/ \E s \in Deploy, c \in Commands : CommandExit(s, c)
    \/ \E s \in Deploy : GatherReturn(s)
    \/ \E s \in Deploy : GatherRaise(s)
    \/ DebugDevicesCall
    \/ DebugDevices

SpecDeploy == InitDeploy /\ [][NextDeploy]_vars

(* setup_cli_environment called on its own, one call after the other *)

InitProv == Start(Provision)

NextProv ==
    \/ \E s \in Provision : ProvisionCall(s)
    \/ \E s \in Provision, c \in Commands : CommandStart(s, c)
    \/ \E s \in Provision, c \in Commands : CommandExit(s, c)
    \/ \E s \in Provision : GatherReturn(s)
    \/ \E s \in Provision : GatherRaise(s)
    \/ DebugDevicesCall
    \/ DebugDevices

SpecProv == InitProv /\ [][NextProv]_vars

(* The server answering a generate request and a deploy request that       *)
(* overlap                                                                  *)

\* each client has one request left to send
StartServing(sessions) ==
    /\ arduino_cli_path \in CliPaths
    /\ google_api_key \in BOOLEAN
    /\ cli_env_setup_done = FALSE
    /\ user_description = NoText
    /\ health_check = "none"
    /\ sess = [s \in sessions |-> [Fresh("idle") EXCEPT !.served = MaxRequests - 1]]

Server == {"g2", "d2"}

InitServer == StartServing(Server)

NextServer ==
    \/ \E s \in Server : GenerateRequest(s)
    \/ \E s \in Server : GenerationAnswer(s)
    \/ \E s \in Server : CompileExit(s)
    \/ \E s \in Server : FixAnswer(s)
    \/ \E s \in Server : DeployRequest(s)
    \/ \E s \in Server : DeployCompileExit(s)
    \/ \E s \in Server : UploadExit(s)
    \/ \E s \in Server, c \in Commands : CommandStart(s, c)
    \/ \E s \in Server, c \in Commands : CommandExit(s, c)
    \/ \E s \in Server : GatherReturn(s)
    \/ \E s \in Server : GatherRaise(s)
    \/ DebugDevicesCall
    \/ DebugDevices

SpecServer == InitServer /\ [][NextServer]_vars

(* The server answering two generate requests that overlap *)

InitPeers == StartServing(Peers)

NextPeers ==
    \/ \E s \in Peers : GenerateRequest(s)
    \/ \E s \in Peers : GenerationAnswer(s)
    \/ \E s \in Peers : CompileExit(s)
    \/ \E s \in Peers : FixAnswer(s)
    \/ \E s \in Peers, c \in Commands : CommandStart(s, c)
    \/ \E s \in Peers, c \in Commands : CommandExit(s, c)
    \/ \E s \in Peers : GatherReturn(s)
    \/ \E s \in Peers : GatherRaise(s)
    \/ DebugDevicesCall
    \/ DebugDevices

SpecPeers == InitPeers /\ [][NextPeers]_vars

----------------------------------------------------------------------------
(* The claims *)

Done(st) == st.pc = "done"

\* the artifact a response to a generate request carries
Artifact(response) ==
    [arduino_code |-> Get(response, "arduino_code"),
     wiring_instructions |-> Get(response, "wiring_instructions")]

\* an artifact as the response carries it (a missing key reads as empty)
Carried(obj) ==
    [arduino_code |-> Get(obj, "arduino_code"),
     wiring_instructions |-> Get(obj, "wiring_instructions")]

(* C1: in every run of the Repair Loop the Build Runner is invoked at most  *)
(* 3 times and a repair is requested at most 2 times.                       *)
C1_AttemptBudget ==
    \A s \in DOMAIN sess : sess[s].builds <= 3 /\ sess[s].repairs <= 2

\* three failed builds and two repairs
C1_Witness ==
    \E s \in DOMAIN sess :
        /\ Done(sess[s])
        /\ sess[s].builds = 3 /\ sess[s].repairs = 2 /\ sess[s].build = "nonzero"

(* C2: when build k (k in 1..3) is the first to succeed, the loop has made  *)
(* k-1 repair round-trips and k builds and returns Success with the text   *)
(* compiled in attempt k.                                                   *)
C2_SuccessAtAttemptK ==
    \A s \in DOMAIN sess :
        (Done(sess[s]) /\ sess[s].build = "zero") =>
            /\ sess[s].builds \in 1..3
            /\ sess[s].repairs = sess[s].builds - 1
            /\ Get(sess[s].response, "status") = 200
            /\ Get(sess[s].response, "arduino_code") = sess[s].compiled
            /\ sess[s].compiled = Get(sess[s].accepted, "arduino_code")

\* success at the third build, with a text other than the first one
C2_Witness ==
    \E s \in DOMAIN sess :
        /\ Done(sess[s]) /\ sess[s].build = "zero"
        /\ sess[s].builds = 3 /\ sess[s].repairs = 2
        /\ sess[s].compiled # Get(sess[s].initial, "arduino_code")

(* C3: when all 3 builds fail the loop returns a failure carrying the       *)
(* artifact whose text was compiled in attempt 3.                           *)
C3_ExhaustedCarriesLastArtifact ==
    \A s \in DOMAIN sess :
        (Done(sess[s]) /\ sess[s].builds = 3 /\ sess[s].build = "nonzero") =>
            /\ Get(sess[s].response, "status") = 400
            /\ Get(sess[s].response, "error") = "not_validated"
            /\ Get(sess[s].response, "arduino_code") = sess[s].compiled
            /\ Artifact(sess[s].response) = Carried(sess[s].accepted)

\* the third text differs from the first one
C3_Witness ==
    \E s \in DOMAIN sess :
        /\ Done(sess[s]) /\ sess[s].builds = 3 /\ sess[s].build = "nonzero"
        /\ sess[s].compiled # Get(sess[s].initial, "arduino_code")
        /\ Get(sess[s].response, "arduino_code") = sess[s].compiled

\* the answers of the collaborator the loop cannot use
UnusableShapes == {"request_failed", "empty", "unparsable", "missing_field"}

\* the loop has ended in Exhausted: the budget is spent, or a repair failed
LoopExhausted(st) ==
    /\ Done(st)
    /\ \/ st.builds = 3 /\ st.build = "nonzero"
       \/ st.fix_shape \in UnusableShapes

(* C4, as claimed: when the Repair Loop ends in Exhausted the result (and   *)
(* the error returned upward) carries the stderr of the most recent failed *)
(* build together with the last artifact.                                   *)
C4_ExhaustedCarriesDiagnostics ==
    \A s \in DOMAIN sess :
        LoopExhausted(sess[s]) =>
            /\ Artifact(sess[s].response) = Carried(sess[s].accepted)
            /\ \/ Get(sess[s].response, "stderr") = sess[s].result
               \/ Get(sess[s].response, "details") = sess[s].result

(* C4, amended: when the Repair Loop ends in Exhausted the result carries   *)
(* the failure indication and the last artifact (the text compiled in the  *)
(* most recent failed build, and its wiring), and nothing else: the        *)
(* BuildResult of that build is dropped.                                    *)
C4_ExhaustedCarriesArtifactOnly ==
    \A s \in DOMAIN sess :
        LoopExhausted(sess[s]) =>
            /\ sess[s].response =
                  [status |-> 400, error |-> "not_validated",
                   arduino_code |-> sess[s].compiled,
                   wiring_instructions |->
                        Get(sess[s].accepted, "wiring_instructions")]
            /\ sess[s].compiled = Get(sess[s].accepted, "arduino_code")
            /\ sess[s].result \in Stderrs

\* the budget is spent and the last build left a stderr
C4_Witness ==
    \E s \in DOMAIN sess :
        /\ LoopExhausted(sess[s])
        /\ sess[s].builds = 3 /\ sess[s].result \in Stderrs

(* C5: when the answer to a repair request is missing or lacks the source   *)
(* text, the loop ends at once with a failure: no further build, no        *)
(* further repair request, and the artifact returned is the one whose      *)
(* text the most recent (failed) build compiled.                           *)
C5_UnusableRepairAborts ==
    \A s \in DOMAIN sess :
        sess[s].fix_shape \in UnusableShapes =>
            /\ Done(sess[s])
            /\ Get(sess[s].response, "status") = 400
            /\ Get(sess[s].response, "error") = "not_validated"
            /\ sess[s].build = "nonzero"
            /\ sess[s].builds = sess[s].repairs
            /\ Get(sess[s].response, "arduino_code") = sess[s].compiled
            /\ Artifact(sess[s].response) = Carried(sess[s].accepted)

\* the first repair answer lacks the text, with two attempts left
C5_Witness ==
    \E s \in DOMAIN sess :
        /\ sess[s].fix_shape = "missing_field"
        /\ sess[s].builds = 1 /\ Done(sess[s])

(* C6: when the collaborator is unavailable for the first request, or its   *)
(* answer is unparsable or lacks the source text, generate-and-validate    *)
(* returns a generation error and neither the Environment Provisioner nor  *)
(* the Build Runner is invoked.                                             *)
C6_GenerationError ==
    \A s \in DOMAIN sess :
        /\ sess[s].gen_shape \in UnusableShapes \cup {"no_key", "raises"} =>
            /\ Done(sess[s])
            /\ Get(sess[s].response, "status") \in {400, 500}
            /\ DOMAIN sess[s].response = {"status", "error"}
            /\ sess[s].setup_calls = 0 /\ sess[s].tasks = NoTasks
            /\ sess[s].builds = 0 /\ sess[s].build = "none"
        /\ sess[s].gen_shape \in UnusableShapes =>
            sess[s].response = [status |-> 500, error |-> "generation_failed"]

\* the answer lacks the text while a toolchain is there
C6_Witness ==
    \E s \in DOMAIN sess :
        /\ sess[s].gen_shape = "missing_field"
        /\ arduino_cli_path # NoPath
        /\ Done(sess[s])

(* C7: with no toolchain the Repair Loop returns Success with the artifact  *)
(* generated first, unchanged, and no provisioning step, build or repair   *)
(* request takes place.                                                     *)
C7_NoToolchainAccepts ==
    \A s \in DOMAIN sess :
        sess[s].cli_seen = "absent" =>
            /\ Done(sess[s])
            /\ Get(sess[s].response, "status") = 200
            /\ Has(sess[s].initial, "arduino_code")
            /\ Artifact(sess[s].response) = Carried(sess[s].initial)
            /\ sess[s].setup_calls = 0 /\ sess[s].tasks = NoTasks
            /\ sess[s].builds = 0 /\ sess[s].repairs = 0
            /\ ~sess[s].temp_dir

\* an artifact accepted without a toolchain
C7_Witness ==
    \E s \in DOMAIN sess :
        /\ sess[s].cli_seen = "absent" /\ sess[s].gen_shape = "ok"
        /\ Done(sess[s]) /\ sess[s].builds = 0

\* what a response says besides the artifact
Tag(response) ==
    [k \in DOMAIN response \ {"arduino_code", "wiring_instructions"} |-> response[k]]

ValidatedTag == [status |-> 200, message |-> "generated"]

(* C8, as claimed: the response for an artifact accepted without a          *)
(* toolchain is tagged, so that it differs from the response for an        *)
(* artifact whose build succeeded.                                          *)
C8_UnvalidatedIsTagged ==
    \A s \in DOMAIN sess :
        (Done(sess[s]) /\ sess[s].cli_seen = "absent") =>
            Tag(sess[s].response) # ValidatedTag

(* C8, amended: the response for an artifact accepted without a toolchain   *)
(* has the status and the message of the response for an artifact whose    *)
(* build succeeded, and no other field besides the artifact: the caller    *)
(* cannot tell them apart.                                                  *)
C8_UnvalidatedLooksValidated ==
    \A s \in DOMAIN sess :
        (Done(sess[s]) /\ (sess[s].cli_seen = "absent" \/ sess[s].build = "zero")) =>
            Tag(sess[s].response) = ValidatedTag

\* a success response for an artifact that was never built
C8_Witness ==
    \E s \in DOMAIN sess :
        /\ Done(sess[s]) /\ sess[s].cli_seen = "absent"
        /\ sess[s].build = "none"
        /\ Get(sess[s].response, "message") = "generated"

\* a call of setup_cli_environment begins in this step
Called(s) == sess'[s].setup_calls = sess[s].setup_calls + 1

\* the call that begins in this step starts nothing and leaves the flag
NoOp(s) ==
    /\ sess'[s].pc = "idle"
    /\ sess'[s].tasks = NoTasks
    /\ cli_env_setup_done' = cli_env_setup_done

(* C9: a call of setup_cli_environment that begins after an earlier call,   *)
(* made with a toolchain, has returned starts no command, whatever its     *)
(* source text needs, and so does a call made while there is no toolchain, *)
(* which also leaves the flag as it was; the index refresh and the core    *)
(* install are started by a call made with a toolchain before the flag is  *)
(* set.                                                                     *)
C9_ProvisionOnce ==
    [][\A s \in DOMAIN sess :
          Called(s) =>
              /\ sess[s].returned => NoOp(s)
              /\ arduino_cli_path = NoPath => NoOp(s)
              /\ (~cli_env_setup_done /\ arduino_cli_path # NoPath) =>
                    /\ sess'[s].pc = "prov_core"
                    /\ \A c \in CoreCommands : sess'[s].tasks[c] = "pending"]_vars

\* a second call made with a toolchain, whose text needs a library the
\* text of the first call did not, has returned
C9_Witness ==
    \E s \in DOMAIN sess :
        /\ sess[s].setup_calls = 2 /\ sess[s].prior /\ sess[s].with_cli
        /\ sess[s].pc = "idle" /\ sess[s].tasks = NoTasks
        /\ RequiredLibs(sess[s].code) \ RequiredLibs(sess[s].prev_code) # {}

(* C10: in a deploy the upload is started only after the compile of the     *)
(* same source, in the same scratch directory of the same invocation, has  *)
(* exited with status zero; when the compile exits non-zero the deploy     *)
(* returns the build error with the stderr of the compile and starts no    *)
(* upload.                                                                  *)
C10_UploadAfterCompile ==
    \A s \in DOMAIN sess :
        /\ sess[s].uploads >= 1 =>
              sess[s].build = "zero" /\ sess[s].builds = 1
        /\ sess[s].pc = "uploading" =>
              /\ sess[s].temp_dir
              /\ sess[s].compiled = sess[s].code
              /\ sess[s].uploads = 1
        /\ sess[s].build = "nonzero" =>
              /\ Done(sess[s])
              /\ sess[s].uploads = 0
              /\ sess[s].result \in Stderrs
              /\ sess[s].response =
                    [status |-> 200, success |-> FALSE,
                     error |-> "compile_failed", details |-> sess[s].result]

\* an upload runs after the compile has exited with zero
C10_Witness ==
    \E s \in DOMAIN sess :
        /\ sess[s].pc = "uploading" /\ sess[s].build = "zero"
        /\ sess[s].uploads = 1

\* the response is the error e
Error(st, e) == Has(st.response, "error") /\ st.response.error = e

\* the first device of the list, in its order, that is a likely target
FirstLikely(devices) ==
    LET likely == {i \in DOMAIN devices : devices[i].is_arduino}
    IN  devices[CHOOSE i \in likely : \A j \in likely : i <= j].port

NoneLikely(devices) == \A i \in DOMAIN devices : ~devices[i].is_arduino

DeviceNotFound ==
    [status |-> 200, success |-> FALSE, error |-> "no_device",
     suggestion |-> "check_usb"]

(* C11, as claimed: with the selector "auto" the Device Classifier is run,  *)
(* and the device-not-found error returned, only after the build has        *)
(* compiled the source with success.                                        *)
C11_DeviceErrorAfterBuild ==
    \A s \in DOMAIN sess :
        /\ sess[s].scans >= 1 => sess[s].build = "zero"
        /\ Error(sess[s], "no_device") => sess[s].build = "zero"

(* C11, amended: with the selector "auto" the Device Classifier is run      *)
(* before the build: the device-not-found error is returned before any     *)
(* compile has begun, and a compile begins only once the classifier has    *)
(* found a likely target.  A source that fails to compile yields the build *)
(* error only when the port was given or a likely target is attached.      *)
C11_DeviceErrorBeforeBuild ==
    \A s \in DOMAIN sess :
        /\ Error(sess[s], "no_device") =>
              /\ sess[s].selector = Auto /\ sess[s].scans = 1
              /\ sess[s].setup_calls = 1
              /\ sess[s].builds = 0 /\ sess[s].build = "none"
              /\ sess[s].uploads = 0
        /\ (sess[s].builds >= 1 /\ sess[s].selector = Auto) =>
              sess[s].scans = 1 /\ ~NoneLikely(sess[s].seen)
        /\ sess[s].build = "nonzero" =>
              /\ Error(sess[s], "compile_failed")
              /\ sess[s].selector # Auto \/ ~NoneLikely(sess[s].seen)

\* devices are attached, none of them likely, and nothing was compiled
C11_Witness ==
    \E s \in DOMAIN sess :
        /\ Error(sess[s], "no_device") /\ sess[s].builds = 0
        /\ sess[s].seen # <<>> /\ sess[s].cli_seen = "present"

(* C12: a deploy with the selector "auto" for which the Device Classifier   *)
(* returns no likely target (no port at all and a failed enumeration       *)
(* included) returns the device-not-found error with its hint and invokes  *)
(* no upload.                                                               *)
C12_NoDeviceNoUpload ==
    \A s \in DOMAIN sess :
        (sess[s].selector = Auto /\ sess[s].scans >= 1 /\ NoneLikely(sess[s].seen)) =>
            /\ Done(sess[s])
            /\ sess[s].response = DeviceNotFound
            /\ sess[s].uploads = 0 /\ sess[s].target = Auto
            /\ sess[s].pc # "uploading"
            /\ sess[s].scan_failed => sess[s].seen = <<>>

\* the enumeration failed
C12_Witness ==
    \E s \in DOMAIN sess :
        /\ sess[s].scan_failed /\ sess[s].selector = Auto
        /\ sess[s].response = DeviceNotFound

(* C13: a deploy with the selector "auto" uploads to the port of the first  *)
(* device, in the order of the enumeration, that is a likely target; a     *)
(* deploy with a port given uploads to that port and does not run the      *)
(* Device Classifier; the port reported on success is the port of the      *)
(* upload command.                                                          *)
C13_UploadPort ==
    \A s \in DOMAIN sess :
        sess[s].uploads >= 1 =>
            /\ sess[s].selector = Auto =>
                  /\ sess[s].scans = 1 /\ ~NoneLikely(sess[s].seen)
                  /\ sess[s].target = FirstLikely(sess[s].seen)
            /\ sess[s].selector # Auto =>
                  /\ sess[s].target = sess[s].selector
                  /\ sess[s].scans = 0 /\ sess[s].seen = <<>>
            /\ (Has(sess[s].response, "success") /\ sess[s].response.success) =>
                  sess[s].response.port = sess[s].target

\* an upload that succeeded on the second device, the first not being likely
C13_Witness ==
    \E s \in DOMAIN sess :
        /\ sess[s].selector = Auto /\ Len(sess[s].seen) = 2
        /\ ~sess[s].seen[1].is_arduino /\ sess[s].seen[2].is_arduino
        /\ Has(sess[s].response, "success") /\ sess[s].response.success
        /\ sess[s].response.port = sess[s].seen[2].port

CapabilityError == [status |-> 200, success |-> FALSE, error |-> "no_cli"]

(* C14: a deploy called while there is no toolchain returns the capability  *)
(* error at once, with no provisioning, enumeration, compile or upload.    *)
C14_DeployNeedsToolchain ==
    \A s \in Deploy \cap DOMAIN sess :
        sess[s].cli_seen = "absent" =>
            /\ Done(sess[s])
            /\ sess[s].response = CapabilityError
            /\ sess[s].setup_calls = 0 /\ sess[s].tasks = NoTasks
            /\ sess[s].scans = 0
            /\ sess[s].builds = 0 /\ sess[s].build = "none" /\ ~sess[s].temp_dir
            /\ sess[s].uploads = 0

\* a deploy with the selector "auto" refused for want of a toolchain
C14_Witness ==
    \E s \in Deploy \cap DOMAIN sess :
        /\ sess[s].cli_seen = "absent" /\ sess[s].selector = Auto
        /\ sess[s].response = CapabilityError

(* C15: at every Build Runner invocation of the Repair Loop the text        *)
(* compiled is the source text of the current artifact, and when the loop  *)
(* returns Success after a build the text of the artifact returned is the  *)
(* text given to the build that exited with zero.                           *)
C15_ArtifactAndBuildInLockstep ==
    \A s \in Generate \cap DOMAIN sess :
        /\ sess[s].pc = "compiling" =>
              /\ sess[s].compiled = sess[s].code
              /\ Has(sess[s].generation_result, "arduino_code")
              /\ sess[s].generation_result.arduino_code = sess[s].compiled
              /\ sess[s].builds = sess[s].attempt + 1
        /\ (Done(sess[s]) /\ sess[s].build = "zero") =>
              /\ Has(sess[s].response, "arduino_code")
              /\ sess[s].response.arduino_code = sess[s].compiled

\* the second build runs on a text that a repair has changed
C15_Witness ==
    \E s \in Generate \cap DOMAIN sess :
        /\ sess[s].pc = "compiling" /\ sess[s].builds = 2
        /\ sess[s].compiled # Get(sess[s].initial, "arduino_code")

(* C18, as claimed: once the toolchain path is an executable path, no       *)
(* operation sets it back to unavailable.                                   *)
C18_PathMonotonic ==
    [][arduino_cli_path # NoPath => arduino_cli_path' # NoPath]_vars

(* C18, amended: the toolchain path is not monotonic.  The status check,    *)
(* and nothing else, sets it to what the locator finds then: an executable *)
(* path, or unavailable, also after it had been an executable path.  The   *)
(* status check changes nothing else.                                       *)
C18_PathFollowsStatusCheck ==
    [][arduino_cli_path' # arduino_cli_path =>
          /\ arduino_cli_path' \in {NoPath, CliPath}
          /\ UNCHANGED <<google_api_key, cli_env_setup_done, user_description, sess>>]_vars

\* the path is unavailable while a build is running that was started with it
C18_Witness ==
    \E s \in DOMAIN sess :
        /\ arduino_cli_path = NoPath
        /\ sess[s].cli_seen = "present" /\ sess[s].pc = "compiling"

(* C19: a repair request holds the text compiled in the failed build just   *)
(* before it and the stderr of that build; it is sent only right after a   *)
(* failed build, and a well-formed answer is followed by a build of the    *)
(* text it returned.                                                        *)
C19_RepairRequestFollowsBuild ==
    \A s \in Generate \cap DOMAIN sess :
        /\ sess[s].pc = "fix_wait" =>
              /\ sess[s].build = "nonzero" /\ ~sess[s].temp_dir
              /\ sess[s].repairs = sess[s].builds
              /\ sess[s].fix_prompt.code = sess[s].compiled
              /\ sess[s].fix_prompt.error_message = sess[s].result
        /\ sess[s].pc # "fix_wait" => sess[s].fix_prompt = NoPrompt
        /\ sess[s].repairs <= sess[s].builds
        /\ (sess[s].fix_shape = "ok" /\ sess[s].pc # "fix_wait") =>
              /\ sess[s].builds = sess[s].repairs + 1
              /\ sess[s].compiled = sess[s].accepted.arduino_code

\* the second repair request, for a text that the first repair returned
C19_Witness ==
    \E s \in Generate \cap DOMAIN sess :
        /\ sess[s].pc = "fix_wait" /\ sess[s].repairs = 2
        /\ sess[s].fix_shape = "ok"
        /\ sess[s].fix_prompt.code = sess[s].accepted.arduino_code
        /\ sess[s].fix_prompt.code # Get(sess[s].initial, "arduino_code")

(* C16, as claimed: under any interleaving of sessions, once the flag is    *)
(* set no index refresh, core install or library install is started by any *)
(* session, and the flag is never cleared.                                  *)
C16_NoCommandOnceReady ==
    [][/\ cli_env_setup_done => cli_env_setup_done'
       /\ \A s \in DOMAIN sess : ~sess'[s].late]_vars

(* C16, amended: the flag is never cleared, and a session that calls        *)
(* setup_cli_environment once the flag is set starts no command.  A        *)
(* session that called it before, and is still provisioning when another   *)
(* session sets the flag, goes on to start the commands it has left.       *)
C16_NoCommandEnteredOnceReady ==
    [][/\ cli_env_setup_done => cli_env_setup_done'
       /\ \A s \in DOMAIN sess :
            /\ (Called(s) /\ cli_env_setup_done) =>
                  sess'[s].tasks = NoTasks /\ ~sess'[s].late
            /\ (sess'[s].late /\ ~sess[s].late) =>
                  /\ cli_env_setup_done
                  /\ \E c \in Commands :
                        sess[s].tasks[c] = "pending" /\ sess'[s].tasks[c] = "running"
            /\ (sess[s].tasks = NoTasks /\ sess'[s].tasks # NoTasks) =>
                  Called(s) /\ ~cli_env_setup_done]_vars

\* a session runs a library install that it started after another session
\* had set the flag
C16_Witness ==
    \E s, t \in DOMAIN sess :
        /\ s # t /\ cli_env_setup_done
        /\ sess[s].late /\ sess[s].pc = "prov_libs"
        /\ \E c \in LibNames : sess[s].tasks[c] = "running"
        /\ sess[t].setup_calls = 1 /\ sess[t].tasks = NoTasks

(* C17, as claimed: a repair request of a session carries the description   *)
(* that the caller of that session sent, also when other generate sessions *)
(* start while it is suspended.                                             *)
C17_RepairCarriesOwnDescription ==
    \A s \in DOMAIN sess :
        sess[s].pc = "fix_wait" =>
            sess[s].fix_prompt.user_description = sess[s].description

(* C20: the scratch directory of a Build Runner invocation, and that of a   *)
(* deploy, exists while its compile or upload subprocess runs and is gone  *)
(* once the invocation has returned, whichever way it ends.                 *)
C20_ScratchDirectoryScoped ==
    \A s \in DOMAIN sess :
        /\ sess[s].temp_dir <=> sess[s].pc \in {"compiling", "uploading"}
        /\ sess[s].pc = "compiling" => sess[s].build = "running"
        /\ sess[s].pc = "uploading" => sess[s].build = "zero"
        /\ Done(sess[s]) => ~sess[s].temp_dir
        /\ sess[s].build \in {"zero", "nonzero", "raised"} =>
              sess[s].temp_dir = (sess[s].pc = "uploading")

\* a deploy has ended on an exception at the start of its upload while the
\* directory of a build of the repair loop exists
C20_Witness ==
    \E s, t \in DOMAIN sess :
        /\ Kind(s) = "deploy" /\ Done(sess[s])
        /\ sess[s].uploads = 1 /\ sess[s].response = [status |-> 500]
        /\ Kind(t) = "generate" /\ sess[t].pc = "compiling" /\ sess[t].temp_dir

Provisioning(st) == st.pc \in {"prov_core", "prov_libs"}

(* C21: within one provisioning run no library install is started before    *)
(* the index refresh and the core install have both finished, the flag is  *)
(* set only once every library install of the run has finished, and a      *)
(* command that exits with a non-zero status fails nothing: the run goes   *)
(* on, sets the flag and returns to its caller.                             *)
C21_ProvisioningBarriers ==
    [][\A s \in DOMAIN sess :
          /\ \A l \in LibNames :
                (sess[s].tasks[l] = "none" /\ sess'[s].tasks[l] = "pending") =>
                    /\ sess[s].pc = "prov_core"
                    /\ \A c \in CoreCommands : sess[s].tasks[c] = "exited"
          /\ \A c \in Commands :
                (/\ Provisioning(sess[s])
                 /\ sess[s].tasks[c] = "running"
                 /\ sess'[s].tasks[c] # "running") =>
                    sess'[s].tasks[c] = "exited" /\ Provisioning(sess'[s])
          /\ (sess[s].pc # sess'[s].pc /\ Provisioning(sess[s])
                /\ ~cli_env_setup_done /\ cli_env_setup_done') =>
                    /\ GatherDone(sess[s])
                    /\ \A l \in RequiredLibs(sess[s].code) :
                          sess[s].pc = "prov_libs" /\ sess[s].tasks[l] = "exited"
          /\ (GatherDone(sess[s]) /\ SetupFinishes(sess[s])
                /\ sess'[s] # sess[s]) =>
                    /\ cli_env_setup_done'
                    /\ sess'[s].pc = "idle" /\ sess'[s].returned]_vars

\* a run with a library install has set the flag and returned although one
\* of its commands exited non-zero
C21_Witness ==
    \E s \in DOMAIN sess :
        /\ cli_env_setup_done /\ sess[s].nonzero
        /\ sess[s].setup_calls = 1 /\ sess[s].returned /\ sess[s].pc = "idle"
        /\ RequiredLibs(sess[s].code) # {}

\* the steps of session s: its coroutine, or one of its tasks, goes on
Step(s) ==
    \/ GenerationAnswer(s) \/ CompileExit(s) \/ FixAnswer(s)
    \/ DeployCompileExit(s) \/ UploadExit(s)
    \/ \E c \in Commands : CommandStart(s, c) \/ CommandExit(s, c)
    \/ GatherReturn(s) \/ GatherRaise(s)

\* what session s waits for can come: an answer, the exit of a subprocess,
\* the start of a task, the result of a gather
Waiting(st) ==
    \/ st.pc \in {"gen_wait", "compiling", "fix_wait", "uploading"}
    \/ \E c \in Commands : st.tasks[c] \in {"pending", "running"}
    \/ GatherDone(st)
    \/ Provisioning(st) /\ \E c \in Commands : st.tasks[c] = "raised"

(* C22, as claimed: no subprocess invocation blocks unrelated sessions:     *)
(* while the health check of a status check, a compile, an upload or an    *)
(* install is in progress, every session that is ready to take a step can  *)
(* take it.                                                                 *)
C22_NoSubprocessBlocks ==
    \A s \in DOMAIN sess : Waiting(sess[s]) => ENABLED Step(s)

(* C23, as claimed: a repair changes the source text alone: the wiring      *)
(* instructions of the artifact the Repair Loop returns after any number   *)
(* of repairs are those of the artifact generated first, whatever the      *)
(* repair answers held.                                                     *)
C23_RepairKeepsWiring ==
    \A s \in DOMAIN sess :
        (Done(sess[s]) /\ sess[s].repairs >= 1
            /\ Has(sess[s].response, "wiring_instructions")) =>
                sess[s].response.wiring_instructions =
                    Get(sess[s].initial, "wiring_instructions")

(* C24, as claimed: a session that found a toolchain at its check still     *)
(* has one at every compile and upload it begins later, also when a status *)
(* check resolves the path again while the session is suspended.           *)
C24_ToolchainStaysAvailable ==
    \A s \in DOMAIN sess :
        sess[s].cli_seen = "present" => ~sess[s].null_path

====
